---- MODULE Spec2Model ----
(***************************************************************************)
(* Eye alignment (src/src/eye_alignment/main.py): main validates a batch   *)
(* of images, asks the face detector for one face per image, and           *)
(* align_eyes crops every image so that the eye midpoints coincide.        *)
(*                                                                         *)
(* Coordinates are numpy float64 values.  A float64 is written here as a   *)
(* record [n, t] standing for the real number                              *)
(*        n / Den(N)  +  t * 2^(-ErrExp) / (Den(N) * N)                    *)
(* where N is the batch size: n / Den(N) is the value the arithmetic would *)
(* give without rounding and the t part is the accumulated rounding error  *)
(* of the float64 operations, tracked exactly.                             *)
(***************************************************************************)
EXTENDS Integers, Sequences, FiniteSets, TLC

MaxImgs == 3

(***************************************************************************)
(* float64 arithmetic                                                      *)
(***************************************************************************)
MantissaBits == 53
ErrExp == 60
CoordDen == 5

Den(N) == 2 * CoordDen * N

Abs(k) == IF k < 0 THEN 0 - k ELSE k
Sgn(k) == IF k < 0 THEN 0 - 1 ELSE 1

RECURSIVE Pow2Mod(_, _)
Pow2Mod(s, m) == IF s = 0 THEN 1 % m ELSE (2 * Pow2Mod(s - 1, m)) % m

\* the binary exponent E of a / d:  2^E <= a / d < 2^(E+1)
Binade(a, d) ==
    IF a >= d
    THEN CHOOSE E \in 0..10 : d * 2^E <= a /\ a < d * 2^(E + 1)
    ELSE 0 - (CHOOSE k \in 1..10 : a * 2^k >= d /\ a * 2^(k - 1) < d)

IsPow2(a, d, E) == IF E >= 0 THEN a = d * 2^E ELSE a * 2^(0 - E) = d

\* round-to-nearest-even of the real number x to a float64; a value with
\* n = 0 is the difference of two float64 that stand for the same unrounded
\* value, which float64 subtraction returns exactly
Float64(N, x) ==
    IF x.n = 0 THEN x
    ELSE
    LET D    == Den(N)
        sg   == Sgn(x.n)
        a    == Abs(x.n)
        b    == sg * x.t
        E0   == Binade(a, D)
        E    == IF IsPow2(a, D, E0) /\ b < 0 THEN E0 - 1 ELSE E0
        s    == (MantissaBits - 1) - E
        L    == ErrExp - s
        rho  == ((a % D) * Pow2Mod(s, D)) % D
        rho2 == ((a % (2 * D)) * Pow2Mod(s, 2 * D)) % (2 * D)
        qpar == (rho2 - rho) \div D
        den  == D * N * 2^L
        num  == rho * N * 2^L + b
        fl   == num \div den
        rem  == num - fl * den
        c    == IF 2 * rem < den THEN fl
                ELSE IF 2 * rem > den THEN fl + 1
                ELSE IF (qpar + fl) % 2 = 0 THEN fl ELSE fl + 1
    IN  [n |-> x.n, t |-> sg * ((c * D - rho) * N * 2^L)]

FAdd(N, x, y) == Float64(N, [n |-> x.n + y.n, t |-> x.t + y.t])
FSub(N, x, y) == Float64(N, [n |-> x.n - y.n, t |-> x.t - y.t])
FDiv(N, x, k) == Float64(N, [n |-> x.n \div k, t |-> x.t \div k])
FromInt(N, k) == [n |-> k * Den(N), t |-> 0]
\* the float64 nearest to the landmark coordinate k / CoordDen
FromCoord(N, k) == Float64(N, [n |-> k * 2 * N, t |-> 0])

FLess(x, y) == x.n < y.n \/ (x.n = y.n /\ x.t < y.t)
FLeq(x, y) == x = y \/ FLess(x, y)

\* astype(int): truncation toward zero
AsTypeInt(N, x) ==
    LET D  == Den(N)
        k  == Abs(x.n) \div D
        sg == Sgn(x.n)
    IN  IF Abs(x.n) % D # 0 \/ k = 0 THEN sg * k
        ELSE IF sg * x.t < 0 THEN sg * (k - 1) ELSE sg * k

(***************************************************************************)
(* Images, numpy slicing, the detector's answers                           *)
(***************************************************************************)
\* the two image shapes of the batches: (height, width, channels)
ShapeA == <<4, 5, 3>>
ShapeB == <<5, 4, 3>>
Shapes == {ShapeA, ShapeB}

\* the image at position tag of a batch; every pixel value is distinct
Image(tag, shape) ==
    [shape |-> shape,
     pix   |-> [y \in 1..shape[1] |-> [x \in 1..shape[2] |-> 100 * tag + 10 * y + x]]]

Batch(shapes) == [k \in 1..Len(shapes) |-> Image(k, shapes[k])]

Batches == UNION {{Batch(ss) : ss \in [1..len -> Shapes]} : len \in 0..MaxImgs}

\* a[lo:hi] on an axis of length len: negative indices wrap, all are clipped
SliceIndex(k, len) ==
    IF k < 0 THEN (IF k + len < 0 THEN 0 ELSE k + len)
    ELSE (IF k > len THEN len ELSE k)

SliceLen(len, lo, hi) ==
    LET a == SliceIndex(lo, len)
        b == SliceIndex(hi, len)
    IN  IF b <= a THEN 0 ELSE b - a

Slice(s, lo, hi) ==
    LET a == SliceIndex(lo, Len(s))
    IN  [k \in 1..SliceLen(Len(s), lo, hi) |-> s[a + k]]

\* img[y_crop_low:y_crop_high, x_crop_low:x_crop_high]
Crop(img, ylo, yhi, xlo, xhi) ==
    [shape |-> <<SliceLen(img.shape[1], ylo, yhi), SliceLen(img.shape[2], xlo, xhi)>>
               \o Tail(Tail(img.shape)),
     pix   |-> LET rows == Slice(img.pix, ylo, yhi)
               IN  [r \in 1..Len(rows) |-> Slice(rows[r], xlo, xhi)]]

\* a detected face; landmark coordinates (x, y) count 1/CoordDen of a pixel
Face(lx, ly, rx, ry) ==
    [landmarks |-> [left_eye |-> <<lx, ly>>, right_eye |-> <<rx, ry>>]]

Faces ==
    { Face(1, 15, 3, 17),     \* eye midpoint (0.4, 3.2)
      Face(5, 15, 7, 17),     \* eye midpoint (1.2, 3.2)
      Face(6, 15, 8, 17),     \* eye midpoint (1.4, 3.2)
      Face(10, 15, 14, 17),   \* eye midpoint (2.4, 3.2)
      Face(5, 5, 15, 5),      \* eye midpoint (2, 1)
      Face(10, 5, 20, 5),     \* eye midpoint (3, 1)
      Face(35, 5, 45, 5) }    \* eye midpoint (8, 1), right of the image

\* what RetinaFace.detect_faces may return: no face, one face, two faces
DetectorOutputs ==
    {<<>>} \cup {<<f>> : f \in Faces}
           \cup {<<Face(5, 5, 15, 5), Face(10, 5, 20, 5)>>}

(***************************************************************************)
(* find_mid_eye                                                            *)
(***************************************************************************)
\* find_mid_eye without its second test
DetectionErrorNoUpperTest(faces) ==
    IF Len(faces) = 0 THEN "No face detected." ELSE "none"

DetectionError(faces) ==
    IF Len(faces) = 0 THEN "No face detected."
    ELSE IF Len(faces) >= 2 THEN "Too many faces detected."
    ELSE "none"

\* np.mean([left_eye, right_eye], axis=0)
MidEye(N, faces) ==
    LET l == faces[1].landmarks.left_eye
        r == faces[1].landmarks.right_eye
    IN  [k \in 1..2 |-> FDiv(N, FAdd(N, FromCoord(N, l[k]), FromCoord(N, r[k])), 2)]

(***************************************************************************)
(* align_eyes                                                              *)
(***************************************************************************)
\* imgs[0].shape[:2][::-1]: (width, height)
ImShape(batch) == <<batch[1].shape[2], batch[1].shape[1]>>

RECURSIVE FSum(_, _, _, _)
FSum(N, mids, k, j) ==
    IF j = 1 THEN mids[1][k] ELSE FAdd(N, FSum(N, mids, k, j - 1), mids[j][k])

\* mid_eyes.mean(axis=0)
DistMidEye(N, mids) == [k \in 1..2 |-> FDiv(N, FSum(N, mids, k, N), N)]

\* the subtraction the other way round: mid_eyes - dist_mid_eye[None, :]
ShiftsReversed(N, mids) ==
    LET mean == DistMidEye(N, mids)
    IN  [j \in 1..N |-> [k \in 1..2 |-> FSub(N, mids[j][k], mean[k])]]

\* dist_mid_eye[None, :] - mid_eyes
Shifts(N, mids) ==
    LET mean == DistMidEye(N, mids)
    IN  [j \in 1..N |-> [k \in 1..2 |-> FSub(N, mean[k], mids[j][k])]]

FMax(vals) == CHOOSE v \in vals : \A w \in vals : FLeq(w, v)
FMin(vals) == CHOOSE v \in vals : \A w \in vals : FLeq(v, w)

\* shifts.min(axis=0) taken for the lower bound
BoundLowMin(N, sh) == [k \in 1..2 |-> FMin({sh[j][k] : j \in 1..N})]

\* shifts.max(axis=0)
BoundLow(N, sh) == [k \in 1..2 |-> FMax({sh[j][k] : j \in 1..N})]

\* the size without the smallest shift: (imshape - bound_low).astype(int)
BoundLowToHighNoMin(N, imshape, sh, low) ==
    [k \in 1..2 |-> AsTypeInt(N, FSub(N, FromInt(N, imshape[k]), low[k]))]

\* (imshape + shifts.min(axis=0) - bound_low).astype(int)
BoundLowToHigh(N, imshape, sh, low) ==
    [k \in 1..2 |->
        AsTypeInt(N, FSub(N, FAdd(N, FromInt(N, imshape[k]),
                                     FMin({sh[j][k] : j \in 1..N})),
                             low[k]))]

\* the origin with the operands swapped: (shift - bound_low).astype(int)
CropLowSwapped(N, low, shift) ==
    [k \in 1..2 |-> AsTypeInt(N, FSub(N, shift[k], low[k]))]

\* (bound_low - shift).astype(int)
CropLow(N, low, shift) == [k \in 1..2 |-> AsTypeInt(N, FSub(N, low[k], shift[k]))]

(***************************************************************************)
(* main, step by step                                                      *)
(***************************************************************************)
\* calls and detected are the detector's spy: how often it was called on each
\* image, and what it answered, in call order
VARIABLES imgs, pc, i, calls, detected, mid_eyes, shifts, bound_low,
          bound_low_to_high, crops, cropped_imgs, result, error

vars == <<imgs, pc, i, calls, detected, mid_eyes, shifts, bound_low,
          bound_low_to_high, crops, cropped_imgs, result, error>>

N == Len(imgs)

Init ==
    /\ imgs \in Batches
    /\ pc = "main"
    /\ i = 0
    /\ calls = [k \in 1..Len(imgs) |-> 0]
    /\ detected = <<>>
    /\ mid_eyes = <<>>
    /\ shifts = <<>>
    /\ bound_low = <<>>
    /\ bound_low_to_high = <<>>
    /\ crops = <<>>
    /\ cropped_imgs = <<>>
    /\ result = <<>>
    /\ error = "none"

\* the early return taken for the empty batch only
TrivialBatchEmptyOnly(batch) == Len(batch) < 1

TrivialBatch(batch) == Len(batch) <= 1

\* if len(imgs) <= 1: return imgs.copy()
MainCopy ==
    /\ pc = "main"
    /\ TrivialBatch(imgs)
    /\ result' = imgs
    /\ pc' = "done"
    /\ UNCHANGED <<imgs, i, calls, detected, mid_eyes, shifts, bound_low, bound_low_to_high,
                   crops, cropped_imgs, error>>

\* shape = imgs[0].shape
MainEnter ==
    /\ pc = "main"
    /\ ~TrivialBatch(imgs)
    /\ pc' = "check"
    /\ i' = 1
    /\ UNCHANGED <<imgs, calls, detected, mid_eyes, shifts, bound_low, bound_low_to_high,
                   crops, cropped_imgs, result, error>>

\* comparing the number of dimensions instead of the shapes
ShapeMismatchNdim(img, shape) == Len(img.shape) # Len(shape)

ShapeMismatch(img, shape) == img.shape # shape

\* for img in imgs: if img.shape != shape: raise ValueError
CheckShape ==
    /\ pc = "check"
    /\ i <= N
    /\ IF ShapeMismatch(imgs[i], imgs[1].shape)
       THEN /\ error' = "ValueError"
            /\ pc' = "raised"
            /\ i' = i
       ELSE /\ i' = i + 1
            /\ UNCHANGED <<error, pc>>
    /\ UNCHANGED <<imgs, calls, detected, mid_eyes, shifts, bound_low, bound_low_to_high,
                   crops, cropped_imgs, result>>

CheckDone ==
    /\ pc = "check"
    /\ i > N
    /\ pc' = "find"
    /\ i' = 1
    /\ UNCHANGED <<imgs, calls, detected, mid_eyes, shifts, bound_low, bound_low_to_high,
                   crops, cropped_imgs, result, error>>

\* find_mid_eye(img) for the next image of the comprehension
FindMidEye ==
    /\ pc = "find"
    /\ i <= N
    /\ \E faces \in DetectorOutputs :
          /\ calls' = [calls EXCEPT ![i] = @ + 1]
          /\ detected' = Append(detected, faces)
          /\ IF DetectionError(faces) # "none"
             THEN /\ error' = DetectionError(faces)
                  /\ pc' = "raised"
                  /\ UNCHANGED <<i, mid_eyes>>
             ELSE /\ mid_eyes' = Append(mid_eyes, MidEye(N, faces))
                  /\ i' = i + 1
                  /\ UNCHANGED <<error, pc>>
    /\ UNCHANGED <<imgs, shifts, bound_low, bound_low_to_high, crops, cropped_imgs,
                   result>>

\* align_eyes up to the crop loop
AlignEyes ==
    /\ pc = "find"
    /\ i > N
    /\ shifts' = Shifts(N, mid_eyes)
    /\ bound_low' = BoundLow(N, shifts')
    /\ bound_low_to_high' = BoundLowToHigh(N, ImShape(imgs), shifts', bound_low')
    /\ cropped_imgs' = <<>>
    /\ pc' = "crop"
    /\ i' = 1
    /\ UNCHANGED <<imgs, calls, detected, mid_eyes, crops, result, error>>

\* one iteration of: for img, shift in zip(imgs, shifts)
CropImage ==
    /\ pc = "crop"
    /\ i <= N
    /\ LET low  == CropLow(N, bound_low, shifts[i])
           rect == [x_crop_low  |-> low[1],
                    y_crop_low  |-> low[2],
                    x_crop_high |-> low[1] + bound_low_to_high[1],
                    y_crop_high |-> low[2] + bound_low_to_high[2]]
       IN  /\ crops' = Append(crops, rect)
           /\ cropped_imgs' = Append(cropped_imgs,
                  Crop(imgs[i], rect.y_crop_low, rect.y_crop_high,
                                rect.x_crop_low, rect.x_crop_high))
    /\ i' = i + 1
    /\ UNCHANGED <<imgs, pc, calls, detected, mid_eyes, shifts, bound_low, bound_low_to_high,
                   result, error>>

\* return cropped_imgs
AlignReturn ==
    /\ pc = "crop"
    /\ i > N
    /\ result' = cropped_imgs
    /\ pc' = "done"
    /\ UNCHANGED <<imgs, i, calls, detected, mid_eyes, shifts, bound_low, bound_low_to_high,
                   crops, cropped_imgs, error>>

Next ==
    \/ MainCopy
    \/ MainEnter
    \/ CheckShape
    \/ CheckDone
    \/ FindMidEye
    \/ AlignEyes
    \/ CropImage
    \/ AlignReturn

Spec == Init /\ [][Next]_vars

(***************************************************************************)
(* Properties                                                              *)
(***************************************************************************)
Terminated == pc \in {"done", "raised"}
Aligned == pc = "done" /\ N >= 2
Mismatched == N >= 2 /\ \E k \in 1..N : imgs[k].shape # imgs[1].shape
Dims == ImShape(imgs)

\* exact real arithmetic on the values the float64 records stand for
RSub(x, y) == [n |-> x.n - y.n, t |-> x.t - y.t]
RWithin(x, b) == FLess(x, FromInt(N, b)) /\ FLess(FromInt(N, 0 - b), x)

MinMid(k) == FMin({mid_eyes[j][k] : j \in 1..N})
MaxMid(k) == FMax({mid_eyes[j][k] : j \in 1..N})
\* how far apart the eye midpoints of the batch are on axis k
Spread(k) == RSub(MaxMid(k), MinMid(k))
SpreadFits(k) == FLeq(Spread(k), FromInt(N, Dims[k]))

Low(j, k) == IF k = 1 THEN crops[j].x_crop_low ELSE crops[j].y_crop_low
High(j, k) == IF k = 1 THEN crops[j].x_crop_high ELSE crops[j].y_crop_high
\* where image j's eye midpoint lies inside its crop, on axis k
Offset(j, k) == RSub(mid_eyes[j][k], FromInt(N, Low(j, k)))
\* the values before truncation, without rounding
ExactOrigin(j, k) == RSub(mid_eyes[j][k], MinMid(k))
ExactSize(k) == RSub(FromInt(N, Dims[k]), Spread(k))

FitsAll(k, size) ==
    \A j \in 1..N : Low(j, k) >= 0 /\ Low(j, k) + size <= Dims[k]

PixelsOf(img) == {img.pix[y][x] : y \in 1..Len(img.pix), x \in 1..img.shape[2]}

SameLengthAndOrder ==
    /\ Len(result) = N
    /\ \A j \in 1..N : PixelsOf(result[j]) \subseteq PixelsOf(imgs[j])
SameOutputDims ==
    \A j, l \in 1..N : /\ result[j].shape[1] = result[l].shape[1]
                       /\ result[j].shape[2] = result[l].shape[2]
OutputWithinInput ==
    \A j \in 1..N : /\ result[j].shape[1] <= imgs[j].shape[1]
                    /\ result[j].shape[2] <= imgs[j].shape[2]

\* C1: in a batch of 2 or more images with a shape that differs from the
\* first image's, main stops in the shape check with ValueError and the
\* detector has not been called, wherever the mismatching image stands.
C1_MismatchRaisesBeforeDetection ==
    Mismatched =>
        /\ \A k \in 1..N : calls[k] = 0
        /\ detected = <<>>
        /\ pc \in {"main", "check", "raised"}
        /\ Terminated => (error = "ValueError" /\ result = <<>>)

C1_Witness ==
    /\ pc = "raised"
    /\ error = "ValueError"
    /\ N = 3
    /\ imgs[2].shape = imgs[1].shape
    /\ imgs[3].shape # imgs[1].shape
    /\ \A k \in 1..N : calls[k] = 0

\* C2: a batch of 0 or 1 images is returned as it is: no shape check, no
\* detector call, no error.
C2_TrivialBatchReturnedUnchanged ==
    N <= 1 =>
        /\ pc \in {"main", "done"}
        /\ \A k \in 1..N : calls[k] = 0
        /\ detected = <<>>
        /\ error = "none"
        /\ pc = "done" => result = imgs

C2_Witness ==
    /\ pc = "done"
    /\ N = 1
    /\ result = imgs
    /\ calls = <<0>>

\* C3 as claimed: whenever every image yielded one face, the output keeps
\* length and order, all output images have the same width and height, and
\* these do not exceed the input's.
C3_Claimed ==
    Aligned => (SameLengthAndOrder /\ SameOutputDims /\ OutputWithinInput)

\* C3: when every image yielded one face and the eye midpoints are no
\* farther apart than the image is wide and high, the output keeps length
\* and order, all output images have the same width and height, and these
\* do not exceed the input's.
C3_UniformOutputWhenSpreadFits ==
    (Aligned /\ SpreadFits(1) /\ SpreadFits(2)) =>
        (SameLengthAndOrder /\ SameOutputDims /\ OutputWithinInput)

C3_Witness ==
    /\ Aligned
    /\ N = 3
    /\ SpreadFits(1) /\ SpreadFits(2)
    /\ result[1].shape[2] > 0
    /\ result[1].shape[2] < imgs[1].shape[2]
    /\ result[3].shape = result[1].shape
    /\ result[3].pix # result[1].pix

\* C4 as claimed: every crop rectangle lies inside its image and no slice
\* bound is negative or out of range.
C4_Claimed ==
    \A j \in 1..Len(crops) : \A k \in 1..2 :
        /\ Low(j, k) >= 0
        /\ Low(j, k) + bound_low_to_high[k] <= Dims[k]
        /\ High(j, k) >= 0
        /\ High(j, k) <= Dims[k]

\* C4: on every axis on which the eye midpoints are no farther apart than
\* the image extends, every crop rectangle lies inside its image and no
\* slice bound is negative or out of range.
C4_CropInsideWhenSpreadFits ==
    \A j \in 1..Len(crops) : \A k \in 1..2 :
        SpreadFits(k) =>
            /\ Low(j, k) >= 0
            /\ Low(j, k) + bound_low_to_high[k] <= Dims[k]
            /\ High(j, k) >= 0
            /\ High(j, k) <= Dims[k]

C4_Witness ==
    /\ Aligned
    /\ SpreadFits(1) /\ SpreadFits(2)
    /\ \E j \in 1..N : Low(j, 1) > 0 /\ High(j, 1) = Dims[1]

\* C5 as claimed: after align_eyes every eye midpoint has the same offset
\* inside its crop, on both axes, also for fractional midpoints.
C5_Claimed ==
    Aligned => \A j, l \in 1..N : \A k \in 1..2 : Offset(j, k) = Offset(l, k)

\* C5: after align_eyes the offsets of any two eye midpoints inside their
\* crops differ by less than two pixels on each axis.
C5_OffsetsWithinTwoPixels ==
    Aligned =>
        \A j, l \in 1..N : \A k \in 1..2 :
            RWithin(RSub(Offset(j, k), Offset(l, k)), 2)

C5_Witness ==
    /\ Aligned
    /\ \E j, l \in 1..N : /\ Offset(j, 1) # Offset(l, 1)
                          /\ Low(j, 1) # Low(l, 1)

\* C6: in a same-shaped batch of 2 or more, the first image for which the
\* detector does not return exactly one face ends main with the matching
\* FaceDetectionError, nothing is returned, and the detector was called
\* once on every image up to that one and on none after it.
C6_FirstBadDetectionAborts ==
    \A j \in 1..Len(detected) :
        Len(detected[j]) # 1 =>
            /\ j = Len(detected)
            /\ \A l \in 1..(j - 1) : Len(detected[l]) = 1
            /\ pc = "raised"
            /\ error = (IF Len(detected[j]) = 0 THEN "No face detected."
                        ELSE "Too many faces detected.")
            /\ result = <<>>
            /\ cropped_imgs = <<>>
            /\ calls = [l \in 1..N |-> IF l <= j THEN 1 ELSE 0]

C6_Witness ==
    /\ pc = "raised"
    /\ N = 3
    /\ Len(detected) = 2
    /\ Len(detected[2]) = 2
    /\ error = "Too many faces detected."
    /\ calls = <<1, 1, 0>>

AllMidEyesIdentical == \A j \in 1..N : mid_eyes[j] = mid_eyes[1]

\* C7: when all eye midpoints of the batch are identical, every shift is
\* zero, every crop starts at (0, 0), the shared size is the whole image and
\* every output image equals its input.
C7_IdenticalMidpointsNoCrop ==
    (Aligned /\ AllMidEyesIdentical) =>
        /\ \A j \in 1..N : \A k \in 1..2 : shifts[j][k] = FromInt(N, 0)
        /\ \A j \in 1..N : Low(j, 1) = 0 /\ Low(j, 2) = 0
        /\ bound_low_to_high = Dims
        /\ result = imgs

\* C8 as claimed: no size one pixel wider or one pixel higher than the
\* shared crop size keeps every crop inside its image.
C8_Claimed ==
    Aligned => \A k \in 1..2 : ~FitsAll(k, bound_low_to_high[k] + 1)

\* C8: on every axis on which the eye midpoints are no farther apart than
\* the image extends, the shared crop size keeps every crop inside its
\* image and falls at most two pixels short of the largest such size: no
\* size three pixels larger keeps every crop inside.
C8_SizeFitsAndNearLargest ==
    Aligned =>
        \A k \in 1..2 :
            SpreadFits(k) =>
                /\ FitsAll(k, bound_low_to_high[k])
                /\ ~FitsAll(k, bound_low_to_high[k] + 3)

C8_Witness ==
    /\ Aligned
    /\ SpreadFits(1)
    /\ FitsAll(1, bound_low_to_high[1] + 2)
    /\ bound_low_to_high[1] > 0

\* C9: truncation costs less than one pixel: every crop origin and the
\* shared size are less than one pixel away from their exact values, and
\* the offsets of two eye midpoints inside their crops differ by less than
\* one pixel.
C9_TruncationUnderOnePixel ==
    Aligned =>
        \A k \in 1..2 :
            /\ \A j \in 1..N :
                  RWithin(RSub(FromInt(N, Low(j, k)), ExactOrigin(j, k)), 1)
            /\ RWithin(RSub(FromInt(N, bound_low_to_high[k]), ExactSize(k)), 1)
            /\ \A j, l \in 1..N : RWithin(RSub(Offset(j, k), Offset(l, k)), 1)

\* every eye midpoint moved by the same vector (2, 2)
TranslatedMidEyes ==
    [j \in 1..N |-> [k \in 1..2 |-> FAdd(N, mid_eyes[j][k], FromInt(N, 2))]]
\* the float64 addition moved every midpoint by exactly that vector
TranslationExact ==
    \A j \in 1..N : \A k \in 1..2 :
        RSub(TranslatedMidEyes[j][k], mid_eyes[j][k]) = FromInt(N, 2)
TranslatedShifts == Shifts(N, TranslatedMidEyes)
TranslatedBoundLow == BoundLow(N, TranslatedShifts)

\* C10: the crop rectangles depend on the differences of the eye midpoints
\* only: every origin is the truncated distance of the midpoint from the
\* smallest midpoint, and moving all midpoints by the same vector changes
\* neither the origins nor the shared size.
C10_CropsDependOnDifferencesOnly ==
    Aligned =>
        /\ \A j \in 1..N : \A k \in 1..2 :
              Low(j, k) = AsTypeInt(N, ExactOrigin(j, k))
        /\ TranslationExact =>
              /\ \A j \in 1..N :
                    CropLow(N, TranslatedBoundLow, TranslatedShifts[j])
                        = <<Low(j, 1), Low(j, 2)>>
              /\ BoundLowToHigh(N, Dims, TranslatedShifts, TranslatedBoundLow)
                    = bound_low_to_high

====
